---- MODULE Spec2Model ----
(***************************************************************************)
(* SysPulse core: the CPU and RAM samplers (monitor.cpp / monitor.hpp),    *)
(* the SQLite metric store (db_manager.cpp / db_manager.hpp, v0.3) and the *)
(* collector loop that joins them (main.cpp, v0.3).                        *)
(*                                                                         *)
(* Scaling.  The tick counters are unsigned 64-bit integers in the code.   *)
(* They are modelled as integers modulo Modulus = MaxTick + 1, so that     *)
(* every reading, every wrapped difference and every wrapped sum occurs.   *)
(* A double is modelled as an exact rational in lowest terms.              *)
(***************************************************************************)
EXTENDS Integers, Sequences, FiniteSets, TLC

\* Largest tick value of a cumulative counter; counters wrap at Modulus.
MaxTick == 3
Modulus == MaxTick + 1
\* Largest user-time tick value the OS reports in a reading.
MaxUserTick == 1
\* Largest wall-clock second.
MaxTime == 1
\* Largest load percentage the memory status source reports in the model.
MaxLoad == 2
\* Radix that splits a tick count into the FILETIME low and high halves.
LowPartModulus == 2
\* Most rows the backing file holds before SQLite reports it full.
MaxRows == 2
\* Most sqlite3_open calls in the lifetime of one DatabaseManager.
MaxOpens == 2

Ticks == 0..MaxTick

----------------------------------------------------------------------------
(* double, as an exact rational [num, den] with den > 0, in lowest terms.  *)

RECURSIVE GCD(_, _)
GCD(a, b) == IF b = 0 THEN a ELSE GCD(b, a % b)

Abs(n) == IF n < 0 THEN -n ELSE n

Rat(n, d) ==
    LET g == GCD(Abs(n), Abs(d))
        s == IF d < 0 THEN -1 ELSE 1
    IN  [num |-> (s * n) \div g, den |-> (s * d) \div g]

RatOfInt(n) == [num |-> n, den |-> 1]
RatSub(a, b) == Rat(a.num * b.den - b.num * a.den, a.den * b.den)
RatMul(a, b) == Rat(a.num * b.num, a.den * b.den)
RatDiv(a, b) == Rat(a.num * b.den, a.den * b.num)
RatLe(a, b) == a.num * b.den <= b.num * a.den

----------------------------------------------------------------------------
(* std::optional<Metric>: the empty sequence, or a sequence of one Metric. *)

nullopt == << >>
Some(m) == << m >>
has_value(o) == Len(o) = 1

\* struct Metric
Metric(component, metric, value, unit, timestamp) ==
    [component |-> component, metric |-> metric, value |-> value,
     unit |-> unit, timestamp |-> timestamp]

----------------------------------------------------------------------------
(* The OS sources.                                                         *)

\* FILETIME as GetSystemTimes fills it for a cumulative tick count q.
FileTimeOf(q) ==
    [dwLowDateTime |-> q % LowPartModulus, dwHighDateTime |-> q \div LowPartModulus]

\* Outcomes of GetSystemTimes: failure, or the three cumulative tick counts.
GetSystemTimesOutcomes ==
    { [ok |-> FALSE, idle |-> 0, kernel |-> 0, user |-> 0] }
    \cup
    { [ok |-> TRUE, idle |-> i, kernel |-> k, user |-> u] :
        i \in Ticks, k \in Ticks, u \in 0..MaxUserTick }

\* Outcomes of GlobalMemoryStatusEx: failure, or a load percentage.
GlobalMemoryStatusExOutcomes ==
    { [ok |-> FALSE, dwMemoryLoad |-> 0] }
    \cup { [ok |-> TRUE, dwMemoryLoad |-> l] : l \in 0..MaxLoad }

\* The outcomes the OS sources take while main runs: a failure, a reading
\* with idle counter 0, a reading, and one more tick of kernel time; a
\* failure, and the highest load.
MainSystemTimesOutcomes ==
    { os \in GetSystemTimesOutcomes :
        \/ ~os.ok
        \/ << os.idle, os.kernel, os.user >> \in { << 0, 0, 0 >>, << 1, 1, 1 >>, << 1, 2, 1 >> } }

MainMemoryStatusOutcomes ==
    { memInfo \in GlobalMemoryStatusExOutcomes :
        ~memInfo.ok \/ memInfo.dwMemoryLoad = MaxLoad }

\* The threads of the process that call the samplers: main alone.
SamplerThreadsTwo == { "main", "worker" }

SamplerThreads == { "main" }

----------------------------------------------------------------------------
VARIABLES
    clock,            \* system_clock::now(), in seconds since the epoch
    lastIdleTime,     \* CpuMonitor::lastIdleTime.QuadPart
    lastKernelTime,   \* CpuMonitor::lastKernelTime.QuadPart
    lastUserTime,     \* CpuMonitor::lastUserTime.QuadPart
    cpuOut,           \* what the latest CpuMonitor::getMetric call returned
    cpuCall,          \* the OS outcome of the latest CpuMonitor::getMetric call
    cpuPrev,          \* latest successful reading before the latest call
    cpuGood,          \* latest successful reading, the latest call included
    cpuDivided,       \* the latest call evaluated the division of line 99
    cpuInCall,        \* per thread: the CpuMonitor::getMetric call it is inside of
    ramOut,           \* what the latest RamMonitor::getMetric call returned
    ramCall,          \* the OS outcome of the latest RamMonitor::getMetric call
    focus,            \* the sampler object a behaviour of SpecSamplers drives
    db,               \* DatabaseManager::db: 0 for nullptr, else a connection handle
    conns,            \* state of every handle sqlite3_open has handed out
    file,             \* the backing file: schema of table metrics, and its rows
    alive,            \* the DatabaseManager has not been destroyed
    connRet,          \* what the latest connect call returned (FALSE before any)
    connCall,         \* the latest connect call: what SQLite answered, the file it met
    ins,              \* the latest insertMetric call: argument, steps, return value,
                      \* and what the latest connect before it had returned
    rowsBefore,       \* the rows of metrics when the latest insertMetric call began
    pc                \* where main is

cpuVars == << lastIdleTime, lastKernelTime, lastUserTime, cpuOut, cpuCall,
              cpuPrev, cpuGood, cpuDivided, cpuInCall >>
ramVars == << ramOut, ramCall >>

storeVars == << db, conns, file, alive, connRet, connCall, ins, rowsBefore >>

vars == << clock, cpuVars, ramVars, focus, storeVars, pc >>

----------------------------------------------------------------------------
(* CpuMonitor                                                              *)

\* ULARGE_INTEGER, by its QuadPart.
fileTimeToInt(ft) == ft.dwHighDateTime * LowPartModulus + ft.dwLowDateTime

\* Unsigned subtraction and addition of ULONGLONG.
Sub64(a, b) == (a - b + Modulus) % Modulus
Add64(a, b) == (a + b) % Modulus

\* Slip: the test for a missing previous reading left out.
NoPreviousReadingNever(idle, kernel, user) == FALSE

\* The test of line 74: no previous reading.
NoPreviousReading(idle, kernel, user) == idle = 0

\* Slip: kernel and user stored crosswise.
NewBaselineCrossed(nowIdle, nowKernel, nowUser) ==
    [idle |-> nowIdle, kernel |-> nowUser, user |-> nowKernel]

\* The baseline the call stores for the reading (lines 75-77 and 87-89).
NewBaseline(nowIdle, nowKernel, nowUser) ==
    [idle |-> nowIdle, kernel |-> nowKernel, user |-> nowUser]

\* Slip: the user time left out of the window.
TotalSystemKernelOnly(deltaKernel, deltaUser) == deltaKernel

\* Line 92.
TotalSystem(deltaKernel, deltaUser) == Add64(deltaKernel, deltaUser)

\* Slip: the idle share reported instead of its complement.
UsageIdleShare(deltaIdle, totalSystem) ==
    RatMul(RatDiv(RatOfInt(deltaIdle), RatOfInt(totalSystem)), RatOfInt(100))

\* Line 99.
Usage(deltaIdle, totalSystem) ==
    RatMul(RatSub(RatOfInt(1), RatDiv(RatOfInt(deltaIdle), RatOfInt(totalSystem))),
           RatOfInt(100))

\* Lines 95-100.
CpuValue(deltaIdle, totalSystem) ==
    IF totalSystem = 0 THEN RatOfInt(0) ELSE Usage(deltaIdle, totalSystem)

\* Slip: the -1.0 sentinel of getUsage (v0.2) returned as a Metric.
CpuOnOsFailureSentinel(now) == Some(Metric("CPU", "Usage", RatOfInt(-1), "%", now))

\* What getMetric returns when GetSystemTimes fails (lines 64-66).
CpuOnOsFailure(now) == nullopt

NoReading == [set |-> FALSE, idle |-> 0, kernel |-> 0, user |-> 0]

\* No call yet; exit names the return statement a call left by:
\* "failed" (line 65), "warmup" (line 78) or "metric" (line 102).
NoCpuCall ==
    [called |-> FALSE, ok |-> FALSE, idle |-> 0, kernel |-> 0, user |-> 0,
     exit |-> "none"]

\* A thread that is not inside getMetric.
NotInCall ==
    [stage |-> "out", idle |-> 0, kernel |-> 0, user |-> 0,
     seenIdle |-> 0, seenKernel |-> 0, seenUser |-> 0, now |-> 0]
Reading(i, k, u) == [set |-> TRUE, idle |-> i, kernel |-> k, user |-> u]

\* Slip: the constructor takes the first reading itself, as in v0.2.
CpuMonitorInitReads ==
    /\ lastIdleTime = 1
    /\ lastKernelTime = 1
    /\ lastUserTime = 1
    /\ cpuOut = nullopt
    /\ cpuCall = NoCpuCall
    /\ cpuPrev = NoReading
    /\ cpuGood = NoReading
    /\ cpuDivided = FALSE
    /\ cpuInCall = [t \in SamplerThreads |-> NotInCall]

\* CpuMonitor::CpuMonitor
CpuMonitorInit ==
    /\ lastIdleTime = 0
    /\ lastKernelTime = 0
    /\ lastUserTime = 0
    /\ cpuOut = nullopt
    /\ cpuCall = NoCpuCall
    /\ cpuPrev = NoReading
    /\ cpuGood = NoReading
    /\ cpuDivided = FALSE
    /\ cpuInCall = [t \in SamplerThreads |-> NotInCall]

\* Slip: the result of GetSystemTimes not tested.
OsReadFailedNever(ok) == FALSE

\* Line 64.
OsReadFailed(ok) == ~ok

\* Lines 64-66: the return on failure assigns none of the three fields.
BaselineOnOsFailure(idle, kernel, user) ==
    [idle |-> idle, kernel |-> kernel, user |-> user]

\* CpuMonitor::getMetric, for outcome os of GetSystemTimes.
CpuGetMetricOn(os) ==
    LET now == clock
        idleTime == FileTimeOf(os.idle)
        kernelTime == FileTimeOf(os.kernel)
        userTime == FileTimeOf(os.user)
        nowIdle == fileTimeToInt(idleTime)
        nowKernel == fileTimeToInt(kernelTime)
        nowUser == fileTimeToInt(userTime)
        deltaIdle == Sub64(nowIdle, lastIdleTime)
        deltaKernel == Sub64(nowKernel, lastKernelTime)
        deltaUser == Sub64(nowUser, lastUserTime)
        totalSystem == TotalSystem(deltaKernel, deltaUser)
        base == NewBaseline(nowIdle, nowKernel, nowUser)
        kept == BaselineOnOsFailure(lastIdleTime, lastKernelTime, lastUserTime)
        warm == NoPreviousReading(lastIdleTime, lastKernelTime, lastUserTime)
    IN  /\ cpuPrev' = cpuGood
        /\ UNCHANGED cpuInCall
        /\ IF OsReadFailed(os.ok)
           THEN /\ cpuOut' = CpuOnOsFailure(now)
                /\ cpuCall' = [called |-> TRUE, ok |-> os.ok,
                               idle |-> 0, kernel |-> 0, user |-> 0,
                               exit |-> "failed"]
                /\ cpuGood' = cpuGood
                /\ cpuDivided' = FALSE
                /\ lastIdleTime' = kept.idle
                /\ lastKernelTime' = kept.kernel
                /\ lastUserTime' = kept.user
           ELSE /\ cpuCall' = [called |-> TRUE, ok |-> os.ok, idle |-> os.idle,
                               kernel |-> os.kernel, user |-> os.user,
                               exit |-> IF warm THEN "warmup" ELSE "metric"]
                /\ cpuGood' = IF os.ok THEN Reading(os.idle, os.kernel, os.user)
                                       ELSE cpuGood
                /\ lastIdleTime' = base.idle
                /\ lastKernelTime' = base.kernel
                /\ lastUserTime' = base.user
                /\ IF warm
                   THEN /\ cpuOut' = nullopt
                        /\ cpuDivided' = FALSE
                   ELSE /\ cpuOut' = Some(Metric("CPU", "Usage",
                                          CpuValue(deltaIdle, totalSystem), "%", now))
                        /\ cpuDivided' = (totalSystem # 0)

\* CpuMonitor::getMetric
CpuGetMetric == \E os \in GetSystemTimesOutcomes : CpuGetMetricOn(os)

\* CpuMonitor::getMetric taken in two steps by thread t.  The first step is
\* lines 52-74 and 82-84: the OS read and the reads of the three fields; a
\* failed OS read returns within it.
CpuGetMetricBegin(t) ==
    /\ cpuInCall[t].stage = "out"
    /\ \E os \in MainSystemTimesOutcomes :
        IF OsReadFailed(os.ok)
        THEN CpuGetMetricOn(os)
        ELSE /\ cpuInCall' = [cpuInCall EXCEPT ![t] =
                    [stage |-> "in",
                     idle |-> fileTimeToInt(FileTimeOf(os.idle)),
                     kernel |-> fileTimeToInt(FileTimeOf(os.kernel)),
                     user |-> fileTimeToInt(FileTimeOf(os.user)),
                     seenIdle |-> lastIdleTime, seenKernel |-> lastKernelTime,
                     seenUser |-> lastUserTime, now |-> clock]]
             /\ UNCHANGED << lastIdleTime, lastKernelTime, lastUserTime, cpuOut,
                             cpuCall, cpuPrev, cpuGood, cpuDivided >>

\* The second step is lines 75-78 and 87-102: the three fields are replaced
\* and the call returns what it computed from the values it had read.
CpuGetMetricEnd(t) ==
    LET c == cpuInCall[t]
        deltaIdle == Sub64(c.idle, c.seenIdle)
        deltaKernel == Sub64(c.kernel, c.seenKernel)
        deltaUser == Sub64(c.user, c.seenUser)
        totalSystem == TotalSystem(deltaKernel, deltaUser)
        base == NewBaseline(c.idle, c.kernel, c.user)
        warm == NoPreviousReading(c.seenIdle, c.seenKernel, c.seenUser)
    IN  /\ c.stage = "in"
        /\ cpuInCall' = [cpuInCall EXCEPT ![t] = NotInCall]
        /\ cpuPrev' = cpuGood
        /\ cpuGood' = Reading(c.idle, c.kernel, c.user)
        /\ cpuCall' = [called |-> TRUE, ok |-> TRUE, idle |-> c.idle,
                       kernel |-> c.kernel, user |-> c.user,
                       exit |-> IF warm THEN "warmup" ELSE "metric"]
        /\ lastIdleTime' = base.idle
        /\ lastKernelTime' = base.kernel
        /\ lastUserTime' = base.user
        /\ IF warm
           THEN /\ cpuOut' = nullopt
                /\ cpuDivided' = FALSE
           ELSE /\ cpuOut' = Some(Metric("CPU", "Usage",
                                  CpuValue(deltaIdle, totalSystem), "%", c.now))
                /\ cpuDivided' = (totalSystem # 0)

----------------------------------------------------------------------------
(* RamMonitor                                                              *)

\* Slip: the load reported as a fraction of one.
RamValueFraction(dwMemoryLoad) == RatDiv(RatOfInt(dwMemoryLoad), RatOfInt(100))

\* Line 169.
RamValue(dwMemoryLoad) == RatOfInt(dwMemoryLoad)

\* What getMetric returns when GlobalMemoryStatusEx fails (lines 160-161).
RamOnOsFailure(now) == nullopt

\* RamMonitor::RamMonitor = default
RamMonitorInit ==
    /\ ramOut = nullopt
    /\ ramCall = [called |-> FALSE, ok |-> FALSE, dwMemoryLoad |-> 0]

\* RamMonitor::getMetric, for outcome memInfo of GlobalMemoryStatusEx.
RamGetMetricOn(memInfo) ==
    LET now == clock
    IN  /\ ramCall' = [called |-> TRUE, ok |-> memInfo.ok,
                       dwMemoryLoad |-> memInfo.dwMemoryLoad]
        /\ ramOut' = IF ~memInfo.ok
                     THEN RamOnOsFailure(now)
                     ELSE Some(Metric("RAM", "Usage",
                                      RamValue(memInfo.dwMemoryLoad), "%", now))

\* RamMonitor::getMetric
RamGetMetric == \E memInfo \in GlobalMemoryStatusExOutcomes : RamGetMetricOn(memInfo)

\* The wall clock moves on between calls.
ClockAdvance ==
    /\ clock < MaxTime
    /\ clock' = clock + 1

----------------------------------------------------------------------------
(* DatabaseManager (db_manager.cpp, v0.3) over SQLite.                     *)

\* Schema of table metrics in the backing file:
\*   "none"     no such table
\*   "generic"  id, component, metric, value, unit, timestamp   (v0.3)
\*   "legacy"   id, timestamp, cpu_usage                        (v0.1)
Schemas == {"none", "generic", "legacy"}

\* One row of the generic table.
Row(id, m) ==
    [id |-> id, component |-> m.component, metric |-> m.metric, value |-> m.value,
     unit |-> m.unit, timestamp |-> m.timestamp]

\* The Metrics handed to insertMetric: what the two samplers produce.
InsertArgs ==
    { Metric("CPU", "Usage", Rat(100, 2), "%", t) : t \in 0..MaxTime }
    \cup { Metric("RAM", "Usage", RatOfInt(MaxLoad), "%", t) : t \in 0..MaxTime }

\* What the backing file may hold before the program starts.
InitialFiles ==
    { [schema |-> "none", rows |-> << >>],
      [schema |-> "legacy", rows |-> << >>],
      [schema |-> "generic", rows |-> << >>],
      [schema |-> "generic",
       rows |-> << Row(1, Metric("CPU", "Usage", RatOfInt(0), "%", 0)) >>] }

NoInsert ==
    [called |-> FALSE, ret |-> FALSE, open |-> FALSE,
     connected |-> FALSE, connRet |-> FALSE,
     prepareCalled |-> FALSE, prepared |-> FALSE, stepped |-> FALSE,
     stepRc |-> "none", finalizes |-> 0, arg |-> << >>]

NoConnect ==
    [called |-> FALSE, openRc |-> "none", envOk |-> FALSE, execRc |-> "none",
     handle |-> 0, schema |-> "none", rows |-> << >>]

\* DatabaseManager::DatabaseManager
DatabaseManagerInit ==
    /\ db = 0
    /\ conns = << >>
    /\ alive = TRUE
    /\ connRet = FALSE
    /\ connCall = NoConnect
    /\ ins = NoInsert
    /\ rowsBefore = << >>

\* sqlite3_close of handle h: an open handle becomes closed; closing a handle
\* that is no longer open is a use of a dead handle.
sqlite3_close(c, h) ==
    [c EXCEPT ![h] = IF c[h] = "open" THEN "closed" ELSE "misused"]

\* Any other SQLite call on handle h (sqlite3_exec, sqlite3_prepare_v2).
UseHandle(c, h) ==
    IF h = 0 \/ c[h] = "open" THEN c ELSE [c EXCEPT ![h] = "misused"]

\* Slip: the member left pointing at the handle just closed.
ClearedHandleKept(h) == h

\* Lines 57 and 81: db = nullptr.
ClearedHandle(h) == 0

\* sqlite3_open: SQLITE_OK with a handle, an error with a handle, or an error
\* with no handle (out of memory).
OpenOutcomes == {"SQLITE_OK", "error", "nomem"}

\* Slip: CREATE TABLE without IF NOT EXISTS, an error once the table exists.
CreateTableResultStrict(f) == IF f.schema = "none" THEN "SQLITE_OK" ELSE "error"

\* What CREATE TABLE IF NOT EXISTS metrics answers on file f when nothing in
\* the environment fails: SQLITE_OK, whether or not a table metrics exists.
CreateTableResult(f) == "SQLITE_OK"

\* sqlite3_exec of CREATE TABLE IF NOT EXISTS metrics (...) on file f.
ExecCreateTable(f, rc) ==
    IF rc = "SQLITE_OK" /\ f.schema = "none"
    THEN [f EXCEPT !.schema = "generic"]
    ELSE f

\* Slip: the result of sqlite3_exec not returned, as with the void initTables of v0.1.
initTablesIgnored(rc) == TRUE

\* DatabaseManager::initTables: its return value for the result code of sqlite3_exec.
initTables(rc) == rc = "SQLITE_OK"

\* DatabaseManager::connect
Connect ==
    /\ alive
    /\ Len(conns) < MaxOpens
    /\ \E rc \in OpenOutcomes :
        LET h == Len(conns) + 1
            met == [NoConnect EXCEPT !.called = TRUE, !.openRc = rc,
                                     !.schema = file.schema, !.rows = file.rows]
        IN  IF rc = "nomem"
            THEN /\ db' = 0
                 /\ connRet' = FALSE
                 /\ connCall' = met
                 /\ UNCHANGED << conns, file >>
            ELSE IF rc = "error"
            THEN /\ conns' = sqlite3_close(Append(conns, "open"), h)
                 /\ db' = ClearedHandle(h)
                 /\ connRet' = FALSE
                 /\ connCall' = [met EXCEPT !.handle = h]
                 /\ UNCHANGED file
            ELSE \E envOk \in BOOLEAN :
                 LET execRc == IF envOk THEN CreateTableResult(file) ELSE "error"
                 IN  /\ conns' = UseHandle(Append(conns, "open"), h)
                     /\ db' = h
                     /\ file' = ExecCreateTable(file, execRc)
                     /\ connRet' = initTables(execRc)
                     /\ connCall' = [met EXCEPT !.handle = h, !.envOk = envOk,
                                                !.execRc = execRc]
    /\ UNCHANGED << alive, ins, rowsBefore >>

\* sqlite3_prepare_v2 of the INSERT: it compiles only against the generic table.
PrepareOutcomes(f) ==
    IF f.schema = "generic" THEN {"SQLITE_OK", "error"} ELSE {"error"}

\* sqlite3_step of the INSERT: SQLITE_DONE once the row is written, else an error.
StepOutcomes(f) ==
    IF Len(f.rows) < MaxRows THEN {"SQLITE_DONE", "error"} ELSE {"error"}

\* Slip: the unit and the metric name bound to each other's parameter.
BindParametersCrossed(metric) ==
    << metric.component, metric.unit, metric.value, metric.metric, metric.timestamp >>

\* Lines 155-159: the values bound to parameters 1 to 5 of the statement.
BindParameters(metric) ==
    << metric.component, metric.metric, metric.value, metric.unit, metric.timestamp >>

\* Line 145: the column that each parameter of the INSERT fills, in order.
InsertColumns == << "component", "metric", "value", "unit", "timestamp" >>

ParameterOf(column) == CHOOSE i \in 1..Len(InsertColumns) : InsertColumns[i] = column

\* The row an INSERT that completes adds: every column takes the value bound
\* to its parameter, under the next id.
ExecInsert(f, bound) ==
    [f EXCEPT !.rows = Append(f.rows,
        [id |-> Len(f.rows) + 1,
         component |-> bound[ParameterOf("component")],
         metric |-> bound[ParameterOf("metric")],
         value |-> bound[ParameterOf("value")],
         unit |-> bound[ParameterOf("unit")],
         timestamp |-> bound[ParameterOf("timestamp")]])]

\* Slip: the test for a missing connection left out.
NotOpenNever(d) == FALSE

\* Line 143.
NotOpen(d) == d = 0

\* Slip: the result of sqlite3_step not compared with SQLITE_DONE.
StepSucceededAlways(rc) == TRUE

\* Slip: failure reported whatever sqlite3_step answered.
StepSucceededNever(rc) == FALSE

\* Line 161.
StepSucceeded(rc) == rc = "SQLITE_DONE"

\* Slip: the statement finalized on the success path only.
FinalizeCallsOnDoneOnly(rc) == IF rc = "SQLITE_DONE" THEN 1 ELSE 0

\* Lines 162 and 166: sqlite3_finalize is called once, whatever the step answered.
FinalizeCalls(rc) == 1

\* DatabaseManager::insertMetric(metric)
insertMetric(metric) ==
    LET call == [NoInsert EXCEPT !.called = TRUE, !.arg = << metric >>,
                                 !.open = (db # 0 /\ conns[db] = "open"),
                                 !.connected = connCall.called,
                                 !.connRet = (connCall.called /\ connRet)]
    IN  /\ rowsBefore' = file.rows
        /\ IF NotOpen(db)
           THEN /\ ins' = call
                /\ UNCHANGED << conns, file >>
           ELSE \E prepRc \in (IF db = 0 \/ conns[db] # "open"
                               THEN {"error"} ELSE PrepareOutcomes(file)) :
                /\ conns' = UseHandle(conns, db)
                /\ IF prepRc # "SQLITE_OK"
                   THEN /\ ins' = [call EXCEPT !.prepareCalled = TRUE]
                        /\ UNCHANGED file
                   ELSE \E stepRc \in StepOutcomes(file) :
                        /\ file' = IF stepRc = "SQLITE_DONE"
                                   THEN ExecInsert(file, BindParameters(metric))
                                   ELSE file
                        /\ ins' = [call EXCEPT !.prepareCalled = TRUE,
                                               !.prepared = TRUE, !.stepped = TRUE,
                                               !.stepRc = stepRc,
                                               !.finalizes = FinalizeCalls(stepRc),
                                               !.ret = StepSucceeded(stepRc)]
        /\ UNCHANGED << db, alive, connRet, connCall >>

\* A call of insertMetric by any client of the class.
InsertMetric ==
    /\ alive
    /\ \E metric \in InsertArgs : insertMetric(metric)

\* DatabaseManager::~DatabaseManager
Destroy ==
    /\ alive
    /\ alive' = FALSE
    /\ IF db # 0
       THEN /\ conns' = sqlite3_close(conns, db)
            /\ db' = ClearedHandle(db)
       ELSE UNCHANGED << db, conns >>
    /\ UNCHANGED << file, connRet, connCall, ins, rowsBefore >>

----------------------------------------------------------------------------
(* The samplers.  A CpuMonitor and a RamMonitor share no field, so a        *)
(* behaviour drives one of the two objects, chosen at the start.           *)

Init ==
    /\ clock = 0
    /\ CpuMonitorInit
    /\ RamMonitorInit
    /\ focus \in {"cpu", "ram"}
    /\ DatabaseManagerInit
    /\ file = [schema |-> "none", rows |-> << >>]
    /\ pc = "start"

NextSamplers ==
    \/ focus = "cpu" /\ CpuGetMetric /\ UNCHANGED << clock, ramVars, focus, storeVars, pc >>
    \/ focus = "ram" /\ RamGetMetric /\ UNCHANGED << clock, cpuVars, focus, storeVars, pc >>
    \/ ClockAdvance /\ UNCHANGED << cpuVars, ramVars, focus, storeVars, pc >>

SpecSamplers == Init /\ [][NextSamplers]_vars

(* The store, from construction to destruction, over any backing file.     *)

InitStore ==
    /\ clock = 0
    /\ CpuMonitorInit
    /\ RamMonitorInit
    /\ focus = "cpu"
    /\ DatabaseManagerInit
    /\ file \in InitialFiles
    /\ pc = "start"

NextStore ==
    \/ Connect /\ UNCHANGED << clock, cpuVars, ramVars, focus, pc >>
    \/ InsertMetric /\ UNCHANGED << clock, cpuVars, ramVars, focus, pc >>
    \/ Destroy /\ UNCHANGED << clock, cpuVars, ramVars, focus, pc >>

SpecStore == InitStore /\ [][NextStore]_vars

----------------------------------------------------------------------------
(* main (main.cpp, v0.3): connect, then sample and store once a second.    *)

\* Slip: the two optionals tested with || instead of &&.
EitherHasValue(c, r) == has_value(c) \/ has_value(r)

\* Slip: only the CPU optional tested.
CpuHasValue(c, r) == has_value(c)

\* Line 94.
BothHaveValue(c, r) == has_value(c) /\ has_value(r)

\* What the storage of an empty optional may hold.
UninitMetrics ==
    { Metric("", "", RatOfInt(0), "", 0),
      Metric("", "", RatOfInt(MaxLoad), "", MaxTime) }

\* Lines 95-96: *opt.  Reading through an empty optional is undefined; the
\* Metric copied is then whatever its storage holds.
Deref(o) == IF has_value(o) THEN { o[1] } ELSE UninitMetrics

\* Slip: the result of connect not tested.
AfterConnectGoesOn(ret) == "construct"

\* Lines 76-79: if (!db.connect(dbPath)) { ... return 1; }
AfterConnect(ret) == IF ret THEN "construct" ELSE "return1"

\* Lines 75-79: DatabaseManager db; if (!db.connect(dbPath)) return 1;
MainConnect ==
    /\ pc = "start"
    /\ Connect
    /\ pc' = AfterConnect(connRet')
    /\ UNCHANGED << clock, cpuVars, ramVars, focus >>

\* Lines 82-83: CpuMonitor monitor; RamMonitor ramMonitor;  The constructor
\* of CpuMonitor assigns 0 to the three fields; RamMonitor has no field.
MainConstruct ==
    /\ pc = "construct"
    /\ lastIdleTime' = 0
    /\ lastKernelTime' = 0
    /\ lastUserTime' = 0
    /\ pc' = "getCpu"
    /\ UNCHANGED << cpuOut, cpuCall, cpuPrev, cpuGood, cpuDivided, cpuInCall >>
    /\ UNCHANGED << clock, ramVars, focus, storeVars >>

\* Line 78: return 1 runs the destructor of db.
MainReturn1 ==
    /\ pc = "return1"
    /\ Destroy
    /\ pc' = "exited"
    /\ UNCHANGED << clock, cpuVars, ramVars, focus >>

\* Line 90.
MainGetCpu ==
    /\ pc = "getCpu"
    /\ \E os \in MainSystemTimesOutcomes : CpuGetMetricOn(os)
    /\ pc' = "getRam"
    /\ UNCHANGED << clock, ramVars, focus, storeVars >>

\* Lines 91-94.
MainGetRam ==
    /\ pc = "getRam"
    /\ \E memInfo \in MainMemoryStatusOutcomes : RamGetMetricOn(memInfo)
    /\ pc' = IF BothHaveValue(cpuOut, ramOut') THEN "insertCpu" ELSE "sleep"
    /\ UNCHANGED << clock, cpuVars, focus, storeVars >>

\* Slip: the loop left when an insert fails.
AfterInsertCpuStops(ret) == IF ret THEN "insertRam" ELSE "exited"

\* Slip: the RAM insert made only when the CPU insert succeeded.
AfterInsertCpuSkipsRam(ret) == IF ret THEN "insertRam" ELSE "sleep"

\* Lines 106-108: a failed insert is reported and the loop goes on.
AfterInsertCpu(ret) == "insertRam"

\* Lines 109-111.
AfterInsertRam(ret) == "sleep"

\* Lines 95 and 106-108.
MainInsertCpu ==
    /\ pc = "insertCpu"
    /\ \E cpuMetric \in Deref(cpuOut) : insertMetric(cpuMetric)
    /\ pc' = AfterInsertCpu(ins'.ret)
    /\ UNCHANGED << clock, cpuVars, ramVars, focus >>

\* Lines 96 and 109-111.
MainInsertRam ==
    /\ pc = "insertRam"
    /\ \E ramMetric \in Deref(ramOut) : insertMetric(ramMetric)
    /\ pc' = AfterInsertRam(ins'.ret)
    /\ UNCHANGED << clock, cpuVars, ramVars, focus >>

\* Lines 119-120, and back to line 88.  A second passes; seconds past
\* MaxTime are not told apart.
MainSleep ==
    /\ pc = "sleep"
    /\ clock' = IF clock < MaxTime THEN clock + 1 ELSE clock
    /\ pc' = "getCpu"
    /\ UNCHANGED << cpuVars, ramVars, focus, storeVars >>

\* The entry of main (line 68), with db constructed (line 75).  The storage
\* of the two samplers, constructed at lines 82-83, is shown as zero.
InitMain ==
    /\ clock = 0
    /\ CpuMonitorInit
    /\ RamMonitorInit
    /\ focus = "cpu"
    /\ DatabaseManagerInit
    /\ file \in InitialFiles
    /\ pc = "start"

NextMain ==
    \/ MainConnect
    \/ MainReturn1
    \/ MainConstruct
    \/ MainGetCpu
    \/ MainGetRam
    \/ MainInsertCpu
    \/ MainInsertRam
    \/ MainSleep

SpecMain == InitMain /\ [][NextMain]_vars

\* main is one thread that runs on: it takes its next step whenever it has one.
SpecMainLive == InitMain /\ [][NextMain]_vars /\ WF_vars(NextMain)

\* Line 85: the process is ended from outside (Ctrl+C).  No destructor runs.
MainKill ==
    /\ pc \notin { "exited", "killed" }
    /\ pc' = "killed"
    /\ UNCHANGED << clock, cpuVars, ramVars, focus, storeVars >>

NextMainKill ==
    \/ NextMain
    \/ MainKill

SpecMainKill == InitMain /\ [][NextMainKill]_vars

(* The calls main makes to monitor.getMetric, each taken in two steps.     *)

NextCpuSteps ==
    \/ \E t \in SamplerThreads :
          CpuGetMetricBegin(t) /\ UNCHANGED << clock, ramVars, focus, storeVars, pc >>
    \/ \E t \in SamplerThreads :
          CpuGetMetricEnd(t) /\ UNCHANGED << clock, ramVars, focus, storeVars, pc >>
    \/ ClockAdvance /\ UNCHANGED << cpuVars, ramVars, focus, storeVars, pc >>

SpecCpuSteps == InitMain /\ [][NextCpuSteps]_vars


----------------------------------------------------------------------------
(* Properties of the samplers, under SpecSamplers.                         *)
(* The readings of the two latest successful calls are taken from the      *)
(* history variables cpuPrev and cpuCall, not from the sampler's fields.   *)

Baseline == [idle |-> lastIdleTime, kernel |-> lastKernelTime, user |-> lastUserTime]
Counters(r) == [idle |-> r.idle, kernel |-> r.kernel, user |-> r.user]

\* The latest call read the OS successfully and an earlier call had too.
TwoReadings == cpuCall.ok /\ cpuPrev.set

\* The unsigned deltas between the two latest successful readings.
WrappedDelta(now, prev) == (now - prev + Modulus) % Modulus
RefDeltaIdle == WrappedDelta(cpuCall.idle, cpuPrev.idle)
RefDeltaKernel == WrappedDelta(cpuCall.kernel, cpuPrev.kernel)
RefDeltaUser == WrappedDelta(cpuCall.user, cpuPrev.user)
RefTotal == (RefDeltaKernel + RefDeltaUser) % Modulus

\* The deltas as plain integers, and counters that neither decrease nor wrap.
PlainDeltaIdle == cpuCall.idle - cpuPrev.idle
PlainTotal == (cpuCall.kernel - cpuPrev.kernel) + (cpuCall.user - cpuPrev.user)
WellFormed ==
    /\ cpuCall.idle >= cpuPrev.idle
    /\ cpuCall.kernel >= cpuPrev.kernel
    /\ cpuCall.user >= cpuPrev.user
    /\ PlainTotal <= MaxTick

\* value = n / d, for the value of a returned Metric
ValueIs(o, n, d) == o[1].value.num * d = n * o[1].value.den

\* C1: the first getMetric call whose OS read succeeds returns no Metric and
\* leaves the baseline equal to the idle, kernel and user reading of that call.
C1_FirstReadStoresBaseline ==
    (cpuCall.ok /\ ~cpuPrev.set) =>
        /\ cpuOut = nullopt
        /\ Baseline = Counters(cpuCall)

C1_Witness ==
    /\ cpuCall.ok /\ ~cpuPrev.set
    /\ cpuCall.idle = 1 /\ cpuCall.kernel = 2 /\ cpuCall.user = 0

\* C2, as claimed: for two successive successful readings, the first stored as
\* the baseline, with total = deltaKernel + deltaUser > 0, getMetric returns a
\* Metric whose value is (1 - deltaIdle / total) * 100.  Stated for counters
\* that neither decrease nor wrap, the reading most favourable to the claim.
C2_Original ==
    (TwoReadings /\ WellFormed /\ PlainTotal > 0) =>
        /\ has_value(cpuOut)
        /\ ValueIs(cpuOut, 100 * (PlainTotal - PlainDeltaIdle), PlainTotal)

\* The formula of C2 does hold whenever the stored idle counter is not zero.
C2_WhenIdleNonzero ==
    (TwoReadings /\ WellFormed /\ PlainTotal > 0 /\ cpuPrev.idle # 0) =>
        /\ has_value(cpuOut)
        /\ ValueIs(cpuOut, 100 * (PlainTotal - PlainDeltaIdle), PlainTotal)

\* C3: when a Metric is returned for two successive successful readings with
\* total = deltaKernel + deltaUser > 0 and 0 <= deltaIdle <= total, its value
\* lies between 0 and 100.
C3_ValueInRange ==
    (TwoReadings /\ has_value(cpuOut) /\ RefTotal > 0 /\ RefDeltaIdle <= RefTotal) =>
        /\ RatLe(RatOfInt(0), cpuOut[1].value)
        /\ RatLe(cpuOut[1].value, RatOfInt(100))

C3_Witness ==
    /\ TwoReadings /\ has_value(cpuOut)
    /\ RefTotal = 2 /\ RefDeltaIdle = 1
    /\ ValueIs(cpuOut, 50, 1)

\* C4: when a Metric is returned for two successive successful readings with
\* total > 0, its value is exactly 100 if deltaIdle = 0 and exactly 0 if
\* deltaIdle = total.
C4_Endpoints ==
    (TwoReadings /\ has_value(cpuOut) /\ RefTotal > 0) =>
        /\ (RefDeltaIdle = 0 => cpuOut[1].value = RatOfInt(100))
        /\ (RefDeltaIdle = RefTotal => cpuOut[1].value = RatOfInt(0))

C4_Witness ==
    /\ TwoReadings /\ has_value(cpuOut)
    /\ RefTotal = 2 /\ RefDeltaIdle = 0
    /\ cpuOut[1].value = RatOfInt(100)

\* C5, as claimed: with a baseline stored and deltaKernel + deltaUser = 0 for
\* two successive successful readings, getMetric returns a Metric whose value
\* is 0, whatever deltaIdle is, and performs no division.
C5_Original ==
    (TwoReadings /\ RefTotal = 0) =>
        /\ has_value(cpuOut)
        /\ cpuOut[1].value = RatOfInt(0)
        /\ ~cpuDivided

\* The degenerate interval does yield 0 whenever the stored idle counter is not zero.
C5_WhenIdleNonzero ==
    (TwoReadings /\ RefTotal = 0 /\ cpuPrev.idle # 0) =>
        /\ has_value(cpuOut)
        /\ cpuOut[1].value = RatOfInt(0)
        /\ ~cpuDivided

\* C6: a getMetric call of either sampler whose OS call fails returns no Metric.
C6_FailedReadNoMetric ==
    /\ (cpuCall.called /\ ~cpuCall.ok) => cpuOut = nullopt
    /\ (ramCall.called /\ ~ramCall.ok) => ramOut = nullopt

C6_Witness ==
    /\ cpuCall.called /\ ~cpuCall.ok
    /\ cpuGood.set /\ lastIdleTime # 0

\* C7, as claimed: once a first successful reading is stored, every later
\* getMetric call whose OS read succeeds returns a Metric, whatever the
\* readings are; at most one successful read returns no value.
C7_Original == TwoReadings => has_value(cpuOut)

\* The warm-up is not repeated when the stored idle counter is not zero.
C7_WhenIdleNonzero == (TwoReadings /\ cpuPrev.idle # 0) => has_value(cpuOut)

\* C8: the baseline equals the reading of the latest call whose OS read
\* succeeded, or is all zero when no read has succeeded yet.
C8_BaselineIsLatestReading ==
    Baseline = IF cpuGood.set THEN Counters(cpuGood) ELSE Counters(NoReading)

C8_Witness ==
    /\ TwoReadings /\ has_value(cpuOut)
    /\ RefTotal = 0 /\ RefDeltaIdle # 0
    /\ Baseline = Counters(cpuCall)

\* C9: every RamMonitor::getMetric call whose OS query succeeds returns a
\* Metric whose value is the load percentage reported for that call.
C9_RamValueIsLoad ==
    ramCall.ok =>
        /\ has_value(ramOut)
        /\ ValueIs(ramOut, ramCall.dwMemoryLoad, 1)

C9_Witness ==
    /\ ramCall.ok /\ ramCall.dwMemoryLoad = MaxLoad
    /\ has_value(ramOut)

(* Properties of the store, under SpecStore.                               *)

IsPrefix(a, b) == Len(a) <= Len(b) /\ SubSeq(b, 1, Len(a)) = a

\* C10: an insertMetric call that returns true leaves exactly one more row in
\* metrics, one that returns false leaves the same rows, and either way every
\* row there before the call is unchanged.
C10_InsertAtomic ==
    ins.called =>
        /\ ins.ret => Len(file.rows) = Len(rowsBefore) + 1
        /\ ~ins.ret => file.rows = rowsBefore
        /\ IsPrefix(rowsBefore, file.rows)

C10_Witness ==
    /\ ins.called /\ ~ins.ret /\ ins.stepped
    /\ Len(rowsBefore) = 1
    /\ alive

\* The handles that are open, and whether some call reached a dead handle.
OpenHandles == { h \in DOMAIN conns : conns[h] = "open" }
HandleMisused == \E h \in DOMAIN conns : conns[h] = "misused"

\* C11: insertMetric returns true exactly when the store held an open
\* connection, the statement was prepared and the step answered SQLITE_DONE;
\* with no connection, a failed prepare or any other step result it returns false.
C11_ReturnsTrueIff ==
    ins.called =>
        /\ ins.ret <=> (ins.open /\ ins.prepared /\ ins.stepRc = "SQLITE_DONE")
        /\ ~ins.open => ~ins.ret
        /\ (ins.prepareCalled /\ ~ins.prepared) => ~ins.ret
        /\ (ins.stepped /\ ins.stepRc # "SQLITE_DONE") => ~ins.ret

C11_Witness ==
    /\ ins.called /\ ins.ret
    /\ ins.open /\ ins.prepared /\ ins.stepRc = "SQLITE_DONE"
    /\ Len(file.rows) = MaxRows

\* C12: insertMetric on a store that was never connected, or whose connection
\* has been closed, returns false, prepares no statement, appends no row and
\* reaches no dead or null handle.
C12_InsertWithoutConnection ==
    (ins.called /\ ~ins.open) =>
        /\ ~ins.ret
        /\ ~ins.prepareCalled
        /\ ins.finalizes = 0
        /\ file.rows = rowsBefore
        /\ ~HandleMisused

C12_Witness ==
    /\ ins.called /\ ~ins.open /\ ~ins.ret
    /\ connCall.openRc = "error"
    /\ conns[connCall.handle] = "closed"
    /\ alive

\* C13, as claimed: whenever connect has returned false, whether sqlite3_open
\* failed or initTables did, db is null and the handle of that call is released.
C13_Original ==
    (connCall.called /\ connRet = FALSE) =>
        /\ db = 0
        /\ connCall.handle # 0 => conns[connCall.handle] # "open"

\* The release does happen when it is sqlite3_open that failed.
C13_WhenOpenFails ==
    (connCall.called /\ connCall.openRc # "SQLITE_OK") =>
        /\ connRet = FALSE
        /\ db = 0
        /\ connCall.handle # 0 => conns[connCall.handle] = "closed"

\* C14: when an insertMetric call has returned, the statement it prepared has
\* been finalized exactly once, and a call that prepared none finalized none.
C14_StatementFinalizedOnce ==
    ins.called => ins.finalizes = (IF ins.prepared THEN 1 ELSE 0)

C14_Witness ==
    /\ ins.called /\ ins.prepared
    /\ ins.stepRc = "error" /\ ~ins.ret
    /\ ins.finalizes = 1

\* C15: no handle is closed twice or used after its close: db never points at
\* a handle that has been closed, so no later call reaches it.
C15_NoDoubleClose ==
    /\ ~HandleMisused
    /\ db # 0 => conns[db] = "open"

C15_Witness ==
    /\ ~alive
    /\ connCall.openRc = "error"
    /\ conns[connCall.handle] = "closed"
    /\ ins.called /\ ins.connected /\ ~ins.connRet

\* C16, as claimed: at most one handle is open at any time, and once the
\* DatabaseManager is destroyed every handle sqlite3_open gave it is closed.
C16_Original ==
    /\ Cardinality(OpenHandles) <= 1
    /\ ~alive => OpenHandles = {}

\* C17, as claimed: an insertMetric call made after connect returned false
\* returns false and appends no row.
C17_Original ==
    (ins.called /\ ins.connected /\ ~ins.connRet) =>
        /\ ~ins.ret
        /\ file.rows = rowsBefore

\* It does so when it is sqlite3_open that failed in that connect.
C17_WhenOpenFails ==
    (ins.called /\ ins.connected /\ ~ins.connRet /\ ~ins.open) =>
        /\ ~ins.ret
        /\ file.rows = rowsBefore

\* C18: a connect that meets a file already holding the generic table metrics,
\* with sqlite3_open succeeding and no failure of the environment during
\* sqlite3_exec, returns true and leaves the table and each of its rows as they
\* were; running the schema setup again on the file changes nothing more.
C18_SchemaSetupIdempotent ==
    /\ (connCall.called /\ connCall.openRc = "SQLITE_OK" /\ connCall.envOk
            /\ connCall.schema = "generic") =>
        /\ connRet = TRUE
        /\ file.schema = "generic"
        /\ IsPrefix(connCall.rows, file.rows)
        /\ ~ins.called => file.rows = connCall.rows
    /\ LET once == ExecCreateTable(file, CreateTableResult(file))
       IN  ExecCreateTable(once, CreateTableResult(once)) = once

C18_Witness ==
    /\ connCall.called /\ connCall.openRc = "SQLITE_OK" /\ connCall.envOk
    /\ connCall.schema = "generic" /\ Len(connCall.rows) = 1
    /\ connRet = TRUE /\ ~ins.called
    /\ Len(conns) = 2 /\ conns[1] = "open"
    /\ file.rows = connCall.rows

FullyPopulated(m) == m.component # "" /\ m.metric # "" /\ m.unit # ""

CpuSample ==
    IF has_value(cpuOut) /\ cpuCall.ok /\ cpuPrev.set
          /\ cpuOut[1].value = CpuValue(RefDeltaIdle, RefTotal)
    THEN { cpuOut[1] } ELSE {}

RamSample ==
    IF has_value(ramOut) /\ ramCall.ok
          /\ ramOut[1].value = RatOfInt(ramCall.dwMemoryLoad)
    THEN { ramOut[1] } ELSE {}

\* C20: every step of the collector that changes the rows of metrics appends
\* one row, a field-for-field copy of a fully populated Metric that a sampler
\* returned from a real reading; no row comes from a call that returned no
\* value, from a failed OS read or from the warm-up call.
C20_RowsAreSamplerMetrics ==
    [][ file'.rows # file.rows =>
          /\ Len(file'.rows) = Len(file.rows) + 1
          /\ IsPrefix(file.rows, file'.rows)
          /\ \E m \in CpuSample \cup RamSample :
                /\ FullyPopulated(m)
                /\ file'.rows[Len(file'.rows)] = Row(Len(file.rows) + 1, m) ]_vars

C20_Witness ==
    /\ pc = "sleep" /\ ins.called /\ ins.ret
    /\ connCall.schema = "none"
    /\ Len(file.rows) = 2
    /\ file.rows[1] = Row(1, cpuOut[1])
    /\ file.rows[2] = Row(2, ramOut[1])
    /\ ramCall.dwMemoryLoad = MaxLoad

\* A tick of the loop that stored nothing, or not all: a sampler returned no
\* value and the tick went straight to the sleep, or the latest insertMetric
\* call of the loop returned false.
FailedTick ==
    \/ pc = "sleep" /\ ~(has_value(cpuOut) /\ has_value(ramOut))
    \/ ins.called /\ ~ins.ret

\* C21: after a tick in which a sampler returned no value or an insertMetric
\* call returned false, the loop reaches the next tick, and a tick that has
\* begun calls both samplers.
C21_LoopGoesOn ==
    /\ FailedTick ~> (pc = "getCpu")
    /\ (pc = "getCpu") ~> (pc \in { "insertCpu", "sleep" })

C21_Witness ==
    /\ pc = "insertRam"
    /\ ins.called /\ ~ins.ret /\ ins.stepped
    /\ ins.arg[1].component = "CPU"

\* C22, as claimed: whenever connect has returned true, the table metrics of
\* the backing file has the columns id, component, metric, value, unit and
\* timestamp, whatever the file held before.
C22_Original ==
    (connCall.called /\ connRet = TRUE) => file.schema = "generic"

\* It has them when the file held no table metrics of the earlier schema.
C22_WhenNoLegacyTable ==
    (connCall.called /\ connRet = TRUE /\ connCall.schema # "legacy") =>
        file.schema = "generic"

\* C23: connect returns true exactly when sqlite3_open answered SQLITE_OK and
\* the sqlite3_exec of initTables answered SQLITE_OK; otherwise it returns false.
C23_ConnectTrueIff ==
    connCall.called =>
        (connRet = TRUE <=>
            (connCall.openRc = "SQLITE_OK" /\ connCall.execRc = "SQLITE_OK"))

C23_Witness ==
    /\ connCall.called
    /\ connCall.openRc = "SQLITE_OK" /\ connCall.execRc = "error"
    /\ connRet = FALSE

\* C24, as claimed: when the construction of a CpuMonitor has finished, before
\* any getMetric call, the baseline already holds a reading taken from the OS.
C24_Original == ~cpuCall.called => cpuGood.set

\* C25: inside the sampler a failed OS read and a missing baseline are two
\* exits: the first is taken exactly when the OS call failed and leaves the
\* three fields alone, the second only after a successful read, which it
\* stores; both return no Metric.
C25_FailureAndWarmupApart ==
    cpuCall.called =>
        /\ cpuCall.exit = "failed" <=> ~cpuCall.ok
        /\ cpuCall.exit = "failed" =>
              (cpuOut = nullopt /\ Baseline = Counters(cpuPrev))
        /\ cpuCall.exit = "warmup" =>
              (cpuCall.ok /\ cpuOut = nullopt /\ Baseline = Counters(cpuCall))

C25_Witness ==
    /\ cpuCall.called /\ ~cpuCall.ok
    /\ cpuCall.exit = "failed"
    /\ ~cpuGood.set /\ lastIdleTime = 0

\* C26, as claimed: for two successive successful readings in which none of
\* the idle, kernel and user counters decreases, the value of the Metric
\* returned lies between 0 and 100.
C26_Original ==
    (TwoReadings /\ has_value(cpuOut) /\ WellFormed) =>
        /\ RatLe(RatOfInt(0), cpuOut[1].value)
        /\ RatLe(cpuOut[1].value, RatOfInt(100))

\* The value is in range when, besides, the idle delta is within the total.
C26_WhenIdleWithinTotal ==
    (TwoReadings /\ has_value(cpuOut) /\ WellFormed /\ PlainDeltaIdle <= PlainTotal) =>
        /\ RatLe(RatOfInt(0), cpuOut[1].value)
        /\ RatLe(cpuOut[1].value, RatOfInt(100))

\* C27, as claimed: whenever the collector has terminated, no connection of
\* the store is left open.
C27_Original == pc \in { "exited", "killed" } => OpenHandles = {}

\* No connection is left open when main returns.
C27_WhenMainReturns == pc = "exited" => OpenHandles = {}

\* C28: getMetric returns a Metric only if its OS read succeeded and an earlier
\* call on the instance had read successfully; a call before that returns none.
C28_NoMetricWithoutBaseline ==
    has_value(cpuOut) => (cpuCall.ok /\ cpuPrev.set)

C28_Witness ==
    /\ cpuCall.called /\ cpuCall.ok /\ ~cpuPrev.set
    /\ cpuOut = nullopt
    /\ cpuCall.idle = MaxTick /\ clock = MaxTime

\* The threads that are between the two steps of a getMetric call.
InsideGetMetric == { t \in DOMAIN cpuInCall : cpuInCall[t].stage = "in" }

\* C29: at most one getMetric call is in progress on the sampler, the three
\* fields a call has read are still in place when it replaces them, and so
\* the value returned is computed against the latest successful reading before it.
C29_GetMetricAtomic ==
    /\ Cardinality(InsideGetMetric) <= 1
    /\ \A t \in InsideGetMetric :
          /\ cpuInCall[t].seenIdle = lastIdleTime
          /\ cpuInCall[t].seenKernel = lastKernelTime
          /\ cpuInCall[t].seenUser = lastUserTime
    /\ (TwoReadings /\ has_value(cpuOut)) =>
          cpuOut[1].value = CpuValue(RefDeltaIdle, RefTotal)

C29_Witness ==
    /\ InsideGetMetric = { "main" }
    /\ cpuGood.set /\ lastIdleTime = 1
    /\ cpuInCall["main"].kernel = 2
    /\ has_value(cpuOut)

\* C30, as claimed: a getMetric call whose OS read fails leaves the three
\* fields as they were (the latest successful reading, or all zero before
\* any), and the next successful call after it returns the Metric of the
\* deltas against that latest successful reading.
C30_Original ==
    /\ []((cpuCall.called /\ ~cpuCall.ok) =>
              (Baseline = Counters(cpuPrev) /\ cpuGood = cpuPrev))
    /\ [][ (cpuCall.called /\ ~cpuCall.ok /\ cpuGood.set /\ cpuCall'.ok) =>
              /\ cpuPrev' = cpuGood
              /\ has_value(cpuOut')
              /\ cpuOut'[1].value = CpuValue(RefDeltaIdle', RefTotal') ]_vars

\* The fields are left as they were, and a Metric returned later is computed
\* against the latest successful reading.
C30_FailedReadKeepsBaseline ==
    /\ (cpuCall.called /\ ~cpuCall.ok) =>
          /\ Baseline = Counters(cpuPrev)
          /\ cpuGood = cpuPrev
    /\ (TwoReadings /\ has_value(cpuOut)) =>
          cpuOut[1].value = CpuValue(RefDeltaIdle, RefTotal)

\* One of the three counters of the latest reading is below its baseline.
CounterDecreased ==
    \/ cpuCall.idle < cpuPrev.idle
    \/ cpuCall.kernel < cpuPrev.kernel
    \/ cpuCall.user < cpuPrev.user

\* The value of the Metric is the one of the unsigned deltas, unclamped:
\* 0 when the total is 0, else (1 - deltaIdle / total) * 100.
WrappedValue ==
    IF RefTotal = 0
    THEN cpuOut[1].value = RatOfInt(0)
    ELSE ValueIs(cpuOut, 100 * (RefTotal - RefDeltaIdle), RefTotal)

\* C31, as claimed: when a counter of a successful reading is smaller than
\* its stored baseline, getMetric returns a Metric, and its value is the one
\* of the deltas (now - prev) mod 2^64 and of the total (deltaKernel +
\* deltaUser) mod 2^64, not clamped.
C31_Original ==
    (TwoReadings /\ CounterDecreased) =>
        /\ has_value(cpuOut)
        /\ WrappedValue

\* It does when the stored idle counter is not zero.
C31_WhenIdleNonzero ==
    (TwoReadings /\ CounterDecreased /\ cpuPrev.idle # 0) =>
        /\ has_value(cpuOut)
        /\ WrappedValue

\* C32: main is about to call insertMetric only when both samplers returned a
\* Metric in the tick; a tick in which either returned none goes from the
\* second sampler call straight to the sleep, and outside the two insert
\* steps neither an insertMetric call is made nor the file changed.
C32_InsertOnlyWhenBoth ==
    /\ [](pc \in { "insertCpu", "insertRam" } =>
              (has_value(cpuOut) /\ has_value(ramOut)))
    /\ [][ (pc = "getRam" /\ ~(has_value(cpuOut') /\ has_value(ramOut'))) =>
              pc' = "sleep" ]_vars
    /\ [][ (pc = "getCpu" \/ pc = "getRam" \/ pc = "sleep") =>
              (ins' = ins /\ file' = file /\ rowsBefore' = rowsBefore) ]_vars

C32_Witness ==
    /\ pc = "sleep"
    /\ cpuCall.called /\ ~cpuCall.ok /\ cpuOut = nullopt
    /\ has_value(ramOut)
    /\ Len(file.rows) = 2 /\ ins.called /\ ins.ret
    /\ ins.arg[1].component = "RAM"

\* The result of an insertMetric call as its own SQLite calls decide it.
OwnOutcome(i) == i.open /\ i.prepared /\ i.stepRc = "SQLITE_DONE"

\* C33: in a tick in which both samplers returned a Metric the first insert
\* is the one of the CPU Metric; whatever it returns, the insert of the RAM
\* Metric follows, and then the sleep; each call returns what its own
\* prepare and step decide.
C33_CpuThenRam ==
    /\ [][ (pc = "getRam" /\ has_value(cpuOut') /\ has_value(ramOut')) =>
              pc' = "insertCpu" ]_vars
    /\ [][ pc = "insertCpu" =>
              /\ pc' = "insertRam"
              /\ ins'.called /\ ins'.arg = << cpuOut[1] >>
              /\ ins'.ret <=> OwnOutcome(ins') ]_vars
    /\ [][ pc = "insertRam" =>
              /\ pc' = "sleep"
              /\ ins'.called /\ ins'.arg = << ramOut[1] >>
              /\ ins'.ret <=> OwnOutcome(ins') ]_vars
    /\ (pc = "insertCpu") ~> (pc = "insertRam")
    /\ (pc = "insertRam") ~> (pc = "sleep")

C33_Witness ==
    /\ pc = "sleep"
    /\ Len(file.rows) = 2
    /\ file.rows[1].component = "RAM"
    /\ file.rows[2].component = "CPU"
    /\ ins.called /\ ~ins.ret /\ ins.prepareCalled /\ ~ins.prepared
    /\ ins.arg = << ramOut[1] >>

\* C34: when connect has returned false, main goes to return 1 and ends
\* there: the sampler objects are not constructed, no getMetric and no
\* insertMetric call is made; the construction of the samplers and the loop
\* are reached only when connect has returned true.
C34_FailedConnectExits ==
    /\ [](pc \in { "return1", "exited" } =>
              /\ connCall.called /\ ~connRet
              /\ ~cpuCall.called /\ ~ramCall.called /\ ~ins.called)
    /\ [](pc \notin { "start", "return1", "exited" } =>
              (connCall.called /\ connRet))
    /\ [][ (pc = "start" /\ ~connRet') => pc' = "return1" ]_vars
    /\ [][ pc = "return1" => pc' = "exited" ]_vars
    /\ [][ pc = "exited" => pc' = "exited" ]_vars

C34_Witness ==
    /\ pc = "exited" /\ ~alive
    /\ connCall.called /\ ~connRet
    /\ connCall.openRc = "SQLITE_OK" /\ connCall.execRc = "error"

====
